---- MODULE Spec2Model ----
(***************************************************************************)
(* State machine of the socket.io connection manager of fivem-socket.io:   *)
(* SocketManager (the pool of SocketConnection records, the per-record     *)
(* listener registry, the connection wait with its timer), the socket      *)
(* events it reacts to, and the deadline race the FiveMSocketAdapter       *)
(* exports put around connect, subscribe and publish.                      *)
(*                                                                         *)
(* JavaScript runs one task at a time.  A call runs synchronously up to    *)
(* its first await; its continuation is a microtask, which runs before the *)
(* next socket event or timer, but after any code the caller runs          *)
(* synchronously after the call.  The model keeps that order: socket       *)
(* events, timers and the passing of time are taken only when no           *)
(* continuation is ready (NoMicrotask); calls may start at any point.      *)
(***************************************************************************)
EXTENDS Integers, Sequences, FiniteSets, TLC

VARIABLES
    connections,    \* SocketManager.connections: connection key -> record id (0: no entry)
    conn,           \* the SocketConnection records, by id
    socket,         \* the socket.io Socket of each record, by the same id
    wait,           \* the waitForConnection promise and timer of each record
    calls,          \* connect / subscribe / publish calls, by call id
    invoked,        \* the callbacks the last step invoked, in order, and the message
    result,         \* what the last synchronous export returned
    consecErrs,     \* connect errors each socket reported since its last connect
    everConnected,  \* the keys for which some socket has completed a handshake
    cut             \* history: the calls that waited for a handshake when disconnect
                    \* was called for their key

vars == <<connections, conn, socket, wait, calls, invoked, result, consecErrs, everConnected,
          cut>>

(***************************************************************************)
(* Bounds of the model.                                                    *)
(***************************************************************************)
MaxSockets == 2
MaxCalls == 2

SocketIds == 1..MaxSockets
CallIds == 1..MaxCalls

(***************************************************************************)
(* Inputs.                                                                 *)
(***************************************************************************)
Endpoints == {<<"http://h:3000", "/">>, <<"http://h:3000", "/chat">>}
\* Two endpoints that differ in url and in namespace, as given to an export.
AliasEndpoints == {<<"http://h:3000", "/chat/a">>, <<"http://h:3000/chat/", "/a">>}
LifecycleEvents == {"connect", "disconnect", "connect_error"}
Events == {"x", "connect"}
Callbacks == {"cb", "cb2"}
Payloads == {"a1"}
NoCallback == "undefined"

\* An optional field is <<>> when absent, <<v>> when present, and <<v, t>> when
\* present with a value whose JavaScript type t is not the type of the field.
\* headers and params are sets of <<name, value>> pairs.
NoOptions == [reconnectionAttempts |-> <<>>, reconnectionDelay |-> <<>>, timeout |-> <<>>,
              autoConnect |-> <<>>, headers |-> <<>>, params |-> <<>>]
OptionChoices ==
    { NoOptions,
      [NoOptions EXCEPT !.reconnectionAttempts = <<1>>, !.reconnectionDelay = <<500>>,
                        !.timeout = <<10000>>,
                        !.headers = << {<<"authorization", "t">>} >>,
                        !.params = << {<<"room", "r">>} >>],
      [NoOptions EXCEPT !.autoConnect = <<FALSE>>] }
\* A deadline shorter than the manager's own.
ShortDeadline == [NoOptions EXCEPT !.timeout = <<2500>>]
\* Options with a string where a number belongs.
BadOptions == [NoOptions EXCEPT !.reconnectionDelay = <<"1s", "string">>]

(***************************************************************************)
(* SocketManager: options and keys.                                        *)
(***************************************************************************)
defaultOptions ==
    [reconnectionAttempts |-> 3, reconnectionDelay |-> 1000, timeout |-> 5000,
     autoConnect |-> TRUE, headers |-> {}, params |-> {}]

\* a merge in which the defaults overwrite the caller's options
socketOptionsDefaultsWin(options) == defaultOptions

\* { ...this.defaultOptions, ...options }
socketOptions(options) ==
    [f \in DOMAIN defaultOptions |->
        IF options[f] = <<>> THEN defaultOptions[f] ELSE options[f][1]]

getConnectionKey(url, namespace) == url \o namespace

ConnKeys == {getConnectionKey(e[1], e[2]) : e \in Endpoints}
            \cup {getConnectionKey(e[1], e[2]) : e \in {<<"http://h:3000", "/chat/a">>}}

KeyOf(i) == getConnectionKey(conn[i].url, conn[i].namespace)

\* this.defaultOptions.reconnectionAttempts || 3
EvictionLimit ==
    IF defaultOptions.reconnectionAttempts = 0 THEN 3 ELSE defaultOptions.reconnectionAttempts

\* The delay waitForConnection arms its timer with.
WaitDelay(i) == defaultOptions.timeout

\* null: what normaliseUrl returns for a URL it cannot repair.  It never
\* returns the empty string otherwise, and both are falsy.
Null == ""

Schemes == {"http://", "https://", "ws://", "wss://"}

HasScheme(url) == \E p \in Schemes : Len(url) >= Len(p) /\ SubSeq(url, 1, Len(p)) = p

HasSpace(s) == \E k \in 1..Len(s) : SubSeq(s, k, k) = " "

\* new URL(url) does not throw and gives a host name: a scheme followed by a
\* host without spaces.
URLParses(url) ==
    \E p \in Schemes : /\ Len(url) > Len(p)
                        /\ SubSeq(url, 1, Len(p)) = p
                        /\ ~HasSpace(url)

\* The URL has a path: a "/" after its scheme.
HasPath(url) ==
    \E p \in Schemes :
        /\ Len(url) >= Len(p)
        /\ SubSeq(url, 1, Len(p)) = p
        /\ \E k \in (Len(p) + 1)..Len(url) : SubSeq(url, k, k) = "/"

\* new URL(url).toString(): a URL made of scheme, host and port gets the path
\* "/"; a URL with a path is serialised as it is.
urlToString(url) == IF HasPath(url) THEN url ELSE url \o "/"

\* normaliseUrl: add a scheme where there is none, parse, serialise, and drop
\* the last character; null for a falsy URL and for one that does not parse.
normaliseUrl(url) ==
    LET prefixed == IF HasScheme(url) THEN url ELSE "http://" \o url
        parsedUrl == urlToString(prefixed)
    IN  IF url = "" \/ ~URLParses(prefixed) THEN Null
        ELSE SubSeq(parsedUrl, 1, Len(parsedUrl) - 1)

isValidUrl(url) == url # "" /\ URLParses(url)

isValidNamespace(namespace) ==
    /\ Len(namespace) >= 1
    /\ SubSeq(namespace, 1, 1) = "/"
    /\ ~HasSpace(namespace)

isValidEvent(event) == Len(event) > 0

\* isValidOptions: every field that is present has a value of its type.
isValidOptions(options) == \A f \in DOMAIN options : Len(options[f]) < 2

\* The callback event names the socketSubscribe export refuses.
sensitiveEvents == {"playerConnecting", "playerDropped", "onResourceStart", "onResourceStop"}

\* The adapter's timeoutMs.
timeoutMs(options) == IF Len(options.timeout) # 1 THEN 5000 ELSE options.timeout[1]

(***************************************************************************)
(* Values of unused slots.                                                 *)
(***************************************************************************)
NoListeners == [e \in {} |-> <<>>]
NoConn == [url |-> "", namespace |-> "", reconnectAttempts |-> 0, connected |-> FALSE,
           listeners |-> NoListeners]
NoSocket == [status |-> "none", opts |-> defaultOptions, lifecycle |-> {}, once |-> {},
             wire |-> [e \in Events |-> 0]]
NoWait == [state |-> "none", reason |-> "", timer |-> "none", delay |-> 0]
NoTimer == [state |-> "none", delay |-> 0]
NoCall == [op |-> "none", via |-> "", url |-> "", namespace |-> "", event |-> "",
           callback |-> NoCallback, data |-> "", options |-> NoOptions,
           pc |-> "none", rec |-> 0, created |-> FALSE,
           overlaps |-> {}, fresh |-> FALSE, mres |-> "none", ares |-> "none",
           atimer |-> NoTimer, emits |-> 0]
NoInvoked == [sock |-> 0, event |-> "", data |-> "", cbs |-> <<>>]
NoResult == [op |-> "none", key |-> "", success |-> TRUE, message |-> "", count |-> 0]

Created == {i \in SocketIds : socket[i].status # "none"}
Started == {c \in CallIds : calls[c].op # "none"}

\* The part of the state the manager's code and the handlers of a socket event
\* read and write; a step starts with no callback invoked.
World == [connections |-> connections, conn |-> conn, socket |-> socket, wait |-> wait,
          invoked |-> NoInvoked]

Init ==
    /\ connections = [k \in ConnKeys |-> 0]
    /\ conn = [i \in SocketIds |-> NoConn]
    /\ socket = [i \in SocketIds |-> NoSocket]
    /\ wait = [i \in SocketIds |-> NoWait]
    /\ calls = [c \in CallIds |-> NoCall]
    /\ invoked = NoInvoked
    /\ result = NoResult
    /\ consecErrs = [i \in SocketIds |-> 0]
    /\ everConnected = {}
    /\ cut = {}

(***************************************************************************)
(* The socket.io Socket, as far as the manager uses it.                    *)
(* status: "idle" (created with autoConnect false and never opened),       *)
(* "opening" (handshake or retry in progress), "open", "gaveup" (the       *)
(* client used up its reconnectionAttempts), "closed" (socket.disconnect). *)
(***************************************************************************)
Has(s, x) == \E j \in 1..Len(s) : s[j] = x

Without(s, x) == SelectSeq(s, LAMBDA y : y # x)

RECURSIVE TakeThrough(_, _)
TakeThrough(s, t) ==
    IF s = <<>> THEN <<>>
    ELSE IF Head(s) = t THEN <<t>>
    ELSE <<Head(s)>> \o TakeThrough(Tail(s), t)

RECURSIVE Repeat(_, _)
Repeat(s, n) == IF n = 0 THEN <<>> ELSE s \o Repeat(s, n - 1)

\* socket.off that removes nothing
socketOffNothing(w, i, ev) == w

\* socket.off(event): every listener of the event is removed, whoever added it.
socketOff(w, i, ev) ==
    [w EXCEPT !.socket[i].lifecycle = @ \ {ev},
              !.socket[i].once = @ \ {ev},
              !.socket[i].wire = [e \in Events |-> IF e = ev THEN 0 ELSE @[e]]]

\* a connect handler that leaves the attempt counter as it is
onConnectKeepsCount(w, i) ==
    [w EXCEPT !.conn[i].connected = TRUE]

\* socket.on('connect', ...) of setupConnectionHandlers
onConnect(w, i) ==
    [w EXCEPT !.conn[i].connected = TRUE, !.conn[i].reconnectAttempts = 0]

\* socket.on('disconnect', ...) of setupConnectionHandlers
onDisconnect(w, i) ==
    [w EXCEPT !.conn[i].connected = FALSE]

\* a connect_error handler that evicts one error later
onConnectErrorEvictsLate(w, i) ==
    LET n == w.conn[i].reconnectAttempts + 1
        w1 == [w EXCEPT !.conn[i].reconnectAttempts = n, !.conn[i].connected = FALSE]
    IN  IF n > EvictionLimit
        THEN [w1 EXCEPT !.socket[i].status = "closed",
                        !.connections[getConnectionKey(w.conn[i].url, w.conn[i].namespace)] = 0]
        ELSE w1

\* socket.on('connect_error', ...) of setupConnectionHandlers.  The socket is
\* not connected when it reports a connect error, so socket.disconnect()
\* closes it without emitting 'disconnect'.
onConnectError(w, i) ==
    LET n == w.conn[i].reconnectAttempts + 1
        w1 == [w EXCEPT !.conn[i].reconnectAttempts = n, !.conn[i].connected = FALSE]
    IN  IF n >= EvictionLimit
        THEN [w1 EXCEPT !.socket[i].status = "closed",
                        !.connections[getConnectionKey(w.conn[i].url, w.conn[i].namespace)] = 0]
        ELSE w1

lifecycleHandler(w, i, ev) ==
    IF ev \notin w.socket[i].lifecycle THEN w
    ELSE IF ev = "connect" THEN onConnect(w, i)
    ELSE IF ev = "disconnect" THEN onDisconnect(w, i)
    ELSE onConnectError(w, i)

\* once-handlers that clear the timer and leave the promise unsettled
onceHandlerOnlyClears(w, i, ev) ==
    IF ev \notin w.socket[i].once THEN w
    ELSE [w EXCEPT !.socket[i].once = @ \ {ev},
                   !.wait[i].timer = IF @ = "armed" THEN "cleared" ELSE @]

\* connection.socket.once('connect' | 'connect_error', ...) of waitForConnection:
\* clearTimeout, then resolve or reject (without effect on a settled promise).
onceHandler(w, i, ev) ==
    IF ev \notin w.socket[i].once THEN w
    ELSE [w EXCEPT !.socket[i].once = @ \ {ev},
                   !.wait[i].timer = IF @ = "armed" THEN "cleared" ELSE @,
                   !.wait[i].state = IF @ # "pending" THEN @
                                     ELSE IF ev = "connect" THEN "resolved" ELSE "rejected",
                   !.wait[i].reason = IF w.wait[i].state # "pending" THEN @
                                      ELSE IF ev = "connect" THEN "" ELSE "ConnectFailed"]

\* The callbacks one wire listener of subscribe invokes for a message:
\* eventListeners.forEach(listener => listener(data)), cut short by a
\* callback that throws.
forEachListener(cbs, thrower) ==
    IF Has(cbs, thrower) THEN TakeThrough(cbs, thrower) ELSE cbs

\* The listeners subscribe installed for the event run one after the other;
\* an exception leaves the emit.
wireListeners(w, i, ev, data, thrower) ==
    IF ev \notin Events THEN w
    ELSE LET cbs == IF ev \in DOMAIN w.conn[i].listeners THEN w.conn[i].listeners[ev] ELSE <<>>
             n == w.socket[i].wire[ev]
             run == IF Has(cbs, thrower) THEN forEachListener(cbs, thrower)
                    ELSE Repeat(forEachListener(cbs, thrower), n)
         IN  IF n = 0 THEN w
             ELSE [w EXCEPT !.invoked = [sock |-> i, event |-> ev, data |-> data, cbs |-> run]]

\* The socket emits an event to its listeners, in the order they were added.
socketEmitEvent(w, i, ev, data, thrower) ==
    wireListeners(onceHandler(lifecycleHandler(w, i, ev), i, ev), i, ev, data, thrower)

\* socket.disconnect(): a connected socket emits 'disconnect' as it closes.
socketDisconnect(w, i) ==
    LET w1 == [w EXCEPT !.socket[i].status = "closed"]
    IN  IF w.socket[i].status = "open"
        THEN socketEmitEvent(w1, i, "disconnect", "io client disconnect", NoCallback)
        ELSE w1

(***************************************************************************)
(* SocketManager operations.  The synchronous part of a call is one step;  *)
(* what follows its await is a second step (Continue).                     *)
(***************************************************************************)
\* a pool in which no record is ever found connected
neverConnected(w, key) == FALSE

ConnectedRecord(w, key) ==
    w.connections[key] # 0 /\ w.conn[w.connections[key]].connected

NextSocket(w) == Cardinality({i \in SocketIds : w.socket[i].status # "none"}) + 1

\* waitForConnection: the promise, its timer and its two once-listeners.
waitForConnection(w, i) ==
    IF w.conn[i].connected
    THEN [w EXCEPT !.wait[i] = [NoWait EXCEPT !.state = "resolved"]]
    ELSE [w EXCEPT !.wait[i] = [state |-> "pending", reason |-> "", timer |-> "armed",
                                delay |-> WaitDelay(i)],
                   !.socket[i].once = {"connect", "connect_error"}]

\* setupConnectionHandlers: the three lifecycle listeners.
setupConnectionHandlers(w, i) ==
    [w EXCEPT !.socket[i].lifecycle = LifecycleEvents]

\* connect that suspends without having stored the record it created
connectWithoutSet(w, url, namespace, options) ==
    LET key == getConnectionKey(url, namespace)
        i == NextSocket(w)
        so == socketOptions(options)
        w1 == [w EXCEPT !.socket[i] = [NoSocket EXCEPT
                                          !.status = IF so.autoConnect THEN "opening" ELSE "idle",
                                          !.opts = so],
                        !.conn[i] = [NoConn EXCEPT !.url = url, !.namespace = namespace]]
        w2 == setupConnectionHandlers(w1, i)
    IN  IF ConnectedRecord(w, key)
        THEN [w |-> w, rec |-> w.connections[key], created |-> FALSE]
        ELSE [w |-> waitForConnection(w2, i), rec |-> i, created |-> TRUE]

\* connect, up to its await: the record it returns at once, or the record it
\* creates, stores and waits for.
connect(w, url, namespace, options) ==
    LET key == getConnectionKey(url, namespace)
        i == NextSocket(w)
        so == socketOptions(options)
        w1 == [w EXCEPT !.socket[i] = [NoSocket EXCEPT
                                          !.status = IF so.autoConnect THEN "opening" ELSE "idle",
                                          !.opts = so],
                        !.conn[i] = [NoConn EXCEPT !.url = url, !.namespace = namespace]]
        w2 == setupConnectionHandlers(w1, i)
        w3 == [w2 EXCEPT !.connections[key] = i]
    IN  IF ConnectedRecord(w, key)
        THEN [w |-> w, rec |-> w.connections[key], created |-> FALSE]
        ELSE [w |-> waitForConnection(w3, i), rec |-> i, created |-> TRUE]

getOrCreateConnection(w, url, namespace, options) ==
    IF ConnectedRecord(w, getConnectionKey(url, namespace))
    THEN [w |-> w, rec |-> w.connections[getConnectionKey(url, namespace)], created |-> FALSE]
    ELSE connect(w, url, namespace, options)

\* subscribe that installs a wire listener on every call, not only for a new event
subscribeAlwaysListens(w, i, ev, callback) ==
    LET fresh == ev \notin DOMAIN w.conn[i].listeners
        ls == IF fresh THEN <<>> ELSE w.conn[i].listeners[ev]
        ls1 == IF Has(ls, callback) THEN ls ELSE Append(ls, callback)
    IN  [w EXCEPT !.conn[i].listeners =
                      [e \in DOMAIN @ \cup {ev} |-> IF e = ev THEN ls1 ELSE @[e]],
                  !.socket[i].wire[ev] = @ + 1]

\* subscribe, after its await.  The Set of callbacks keeps insertion order.
subscribe(w, i, ev, callback) ==
    LET fresh == ev \notin DOMAIN w.conn[i].listeners
        ls == IF fresh THEN <<>> ELSE w.conn[i].listeners[ev]
        ls1 == IF Has(ls, callback) THEN ls ELSE Append(ls, callback)
    IN  [w EXCEPT !.conn[i].listeners =
                      [e \in DOMAIN @ \cup {ev} |-> IF e = ev THEN ls1 ELSE @[e]],
                  !.socket[i].wire[ev] = IF fresh THEN @ + 1 ELSE @]

\* unsubscribe that removes the event whatever callback it is given
unsubscribeDropsEvent(w, url, namespace, ev, callback) ==
    LET i == w.connections[getConnectionKey(url, namespace)]
    IN  IF i = 0 \/ ev \notin DOMAIN w.conn[i].listeners THEN w
        ELSE [w EXCEPT !.conn[i].listeners = [e \in DOMAIN @ \ {ev} |-> @[e]],
                       !.socket[i].wire = [e \in Events |-> IF e = ev THEN 0 ELSE @[e]]]

\* unsubscribe (it has no await: one step).
unsubscribe(w, url, namespace, ev, callback) ==
    LET i == w.connections[getConnectionKey(url, namespace)]
        has == ev \in DOMAIN w.conn[i].listeners
        dropped == [w EXCEPT !.conn[i].listeners = [e \in DOMAIN @ \ {ev} |-> @[e]]]
        ls1 == Without(w.conn[i].listeners[ev], callback)
    IN  IF i = 0 THEN w
        ELSE IF callback # NoCallback /\ has
        THEN IF ls1 = <<>>
             THEN socketOff(dropped, i, ev)
             ELSE [w EXCEPT !.conn[i].listeners[ev] = ls1]
        ELSE IF callback = NoCallback /\ has
        THEN socketOff(dropped, i, ev)
        ELSE w

\* disconnect that clears the whole map instead of deleting its key
disconnectClears(w, url, namespace) ==
    LET key == getConnectionKey(url, namespace)
        i == w.connections[key]
        w1 == IF i # 0 THEN socketDisconnect(w, i) ELSE w
    IN  [w1 EXCEPT !.connections = [k \in ConnKeys |-> 0]]

\* disconnect
disconnect(w, url, namespace) ==
    LET key == getConnectionKey(url, namespace)
        i == w.connections[key]
    IN  IF i # 0
        THEN [socketDisconnect(w, i) EXCEPT !.connections[key] = 0]
        ELSE w

\* disconnectAll
RECURSIVE disconnectEach(_, _)
disconnectEach(w, ids) ==
    IF ids = {} THEN w
    ELSE LET i == CHOOSE j \in ids : TRUE
         IN  disconnectEach(socketDisconnect(w, i), ids \ {i})

\* disconnectAll that clears the pool and closes no socket
disconnectAllOnlyClears(w) ==
    [w EXCEPT !.connections = [k \in ConnKeys |-> 0]]

disconnectAll(w) ==
    [disconnectEach(w, {w.connections[k] : k \in ConnKeys} \ {0})
        EXCEPT !.connections = [k \in ConnKeys |-> 0]]

(***************************************************************************)
(* The adapter's race: await Promise.race([managerCall, timeoutPromise]).  *)
(* The first of the two to settle decides what the export returns.         *)
(***************************************************************************)
\* a race in which the last promise to settle decides
raceSettleLast(ares, outcome) == outcome

raceSettle(ares, outcome) == IF ares = "pending" THEN outcome ELSE ares

\* an export that lets the manager's error through to its caller
OutcomeThrows(mres) == IF mres = "ok" THEN "success" ELSE "thrown"

\* What the export returns when the manager's call settles first: the value
\* after the await, or {success: false, error: error.message} of its catch.
Outcome(mres) == IF mres = "ok" THEN "success" ELSE mres

\* The failures an export returns as {success: false, error: ...}.
Failures == {"timeout", "ConnectTimeout", "ConnectFailed", "NotConnected"}

(***************************************************************************)
(* Steps.                                                                  *)
(***************************************************************************)
Ready(c) ==
    IF calls[c].pc = "ready" THEN TRUE
    ELSE IF calls[c].pc = "await" THEN wait[calls[c].rec].state # "pending"
    ELSE FALSE

NoMicrotask == \A c \in CallIds : ~Ready(c)

CanStart(url, namespace) ==
    /\ Cardinality(Started) < MaxCalls
    /\ IF ConnectedRecord(World, getConnectionKey(url, namespace)) THEN TRUE
       ELSE NextSocket(World) <= MaxSockets

\* The calls still waiting for the handshake of the key's connection.
Waiting(key) ==
    {d \in Started : /\ calls[d].pc = "await"
                     /\ getConnectionKey(calls[d].url, calls[d].namespace) = key
                     /\ wait[calls[d].rec].state = "pending"}

SetWorld(w) ==
    /\ connections' = w.connections
    /\ conn' = w.conn
    /\ socket' = w.socket
    /\ wait' = w.wait
    /\ invoked' = w.invoked

\* A call of connect, subscribe or publish: made on the manager, or through
\* the adapter's export, which arms its deadline and then calls the manager.
StartCall(via, op, url, namespace, ev, callback, data, options) ==
    LET c == Cardinality(Started) + 1
        key == getConnectionKey(url, namespace)
        r == IF op = "connect" THEN connect(World, url, namespace, options)
             ELSE getOrCreateConnection(World, url, namespace, options)
        returned == op = "connect" /\ ~r.created
        raced == via = "export"
    IN  /\ SetWorld(r.w)
        /\ calls' = [calls EXCEPT ![c] =
              [op |-> op, via |-> via, url |-> url, namespace |-> namespace, event |-> ev,
               callback |-> callback, data |-> data, options |-> options,
               pc |-> IF r.created THEN "await" ELSE IF returned THEN "done" ELSE "ready",
               rec |-> r.rec, created |-> r.created,
               overlaps |-> Waiting(key), fresh |-> key \notin everConnected,
               mres |-> IF returned THEN "ok" ELSE "pending",
               ares |-> IF ~raced THEN "none"
                        ELSE IF returned THEN raceSettle("pending", Outcome("ok"))
                        ELSE "pending",
               atimer |-> IF raced THEN [state |-> "armed", delay |-> timeoutMs(options)]
                          ELSE NoTimer,
               emits |-> 0]]
        /\ UNCHANGED <<result, consecErrs, everConnected, cut>>

Connect(e, options) ==
    /\ CanStart(e[1], e[2])
    /\ StartCall("manager", "connect", e[1], e[2], "", NoCallback, "", options)

Subscribe(e, ev, callback, options) ==
    /\ CanStart(e[1], e[2])
    /\ StartCall("manager", "subscribe", e[1], e[2], ev, callback, "", options)

Publish(e, ev, data, options) ==
    /\ CanStart(e[1], e[2])
    /\ StartCall("manager", "publish", e[1], e[2], ev, NoCallback, data, options)

\* an export that accepts an empty callback event name
validationIgnoresCallback(op, url, event, callbackEvent, options) ==
    IF normaliseUrl(url) = Null \/ ~isValidUrl(normaliseUrl(url))
    THEN "Invalid URL format. Expected format: http(s)://hostname[:port]"
    ELSE IF op # "connect" /\ ~isValidEvent(event) THEN "Invalid event name"
    ELSE IF op = "subscribe" /\ callbackEvent \in sensitiveEvents
    THEN "Reserved callback event name"
    ELSE IF ~isValidOptions(options) THEN "Invalid options format"
    ELSE ""

\* The checks an export makes before it calls the manager: the error it
\* returns, or "" when the request passes.
validation(op, url, event, callbackEvent, options) ==
    IF normaliseUrl(url) = Null \/ ~isValidUrl(normaliseUrl(url))
    THEN "Invalid URL format. Expected format: http(s)://hostname[:port]"
    ELSE IF op # "connect" /\ ~isValidEvent(event) THEN "Invalid event name"
    ELSE IF op = "subscribe" /\ callbackEvent = "" THEN "Invalid callback event name"
    ELSE IF op = "subscribe" /\ callbackEvent \in sensitiveEvents
    THEN "Reserved callback event name"
    ELSE IF ~isValidOptions(options) THEN "Invalid options format"
    ELSE ""

\* The checks of the socket:subscribe net event handler.
netValidation(url, event, callbackEvent, options) ==
    IF ~isValidUrl(url) THEN "Invalid URL format"
    ELSE IF ~isValidEvent(event) THEN "Invalid event name"
    ELSE IF callbackEvent = "" THEN "Invalid callback event name"
    ELSE IF ~isValidOptions(options) THEN "Invalid options format"
    ELSE ""

\* An invalid namespace is replaced by the root namespace.
namespaceOrRoot(namespace) == IF isValidNamespace(namespace) THEN namespace ELSE "/"

\* A request refused by validation: the failure is returned, nothing else happens.
Rejected(op, error) ==
    /\ result' = [NoResult EXCEPT !.op = op, !.success = FALSE, !.message = error]
    /\ invoked' = NoInvoked
    /\ UNCHANGED <<connections, conn, socket, wait, calls, consecErrs, everConnected, cut>>

\* The exports socketConnect, socketSubscribe and socketPublish.  Each
\* socketSubscribe makes a handler of its own (safeEventHandler).
SocketConnect(e, options) ==
    LET error == validation("connect", e[1], "", NoCallback, options)
        url == normaliseUrl(e[1])
        namespace == namespaceOrRoot(e[2])
    IN  IF error # "" THEN Rejected("socketConnect", error)
        ELSE /\ CanStart(url, namespace)
             /\ StartCall("export", "connect", url, namespace, "", NoCallback, "", options)

SocketSubscribe(e, ev, callback, options) ==
    LET error == validation("subscribe", e[1], ev, callback, options)
        url == normaliseUrl(e[1])
        namespace == namespaceOrRoot(e[2])
    IN  IF error # "" THEN Rejected("socketSubscribe", error)
        ELSE /\ CanStart(url, namespace)
             /\ \A c \in Started : calls[c].callback # callback
             /\ StartCall("export", "subscribe", url, namespace, ev, callback, "", options)

SocketPublish(e, ev, data, options) ==
    LET error == validation("publish", e[1], ev, NoCallback, options)
        url == normaliseUrl(e[1])
        namespace == namespaceOrRoot(e[2])
    IN  IF error # "" THEN Rejected("socketPublish", error)
        ELSE /\ CanStart(url, namespace)
             /\ StartCall("export", "publish", url, namespace, ev, NoCallback, data, options)

\* The socket:subscribe net event: its handler validates, calls the manager's
\* subscribe with a handler of its own and replies with socket:subscribed.
NetSubscribe(e, ev, callback, options) ==
    LET error == netValidation(e[1], ev, callback, options)
        namespace == namespaceOrRoot(e[2])
    IN  IF error # "" THEN Rejected("socket:subscribed", error)
        ELSE /\ CanStart(e[1], namespace)
             /\ \A c \in Started : calls[c].callback # callback
             /\ StartCall("net", "subscribe", e[1], namespace, ev, callback, "", options)

\* publish that does not look at the connected flag
publishUnchecked(connected) == [mres |-> "ok", emits |-> 1]

\* publish, after its await: the connected check, then socket.emit.
publish(connected) ==
    IF connected THEN [mres |-> "ok", emits |-> 1] ELSE [mres |-> "NotConnected", emits |-> 0]

\* What follows the await of a call whose promise has settled.
Continue(c) ==
    LET call == calls[c]
        i == call.rec
        failed == call.pc = "await" /\ wait[i].state = "rejected"
        published == publish(conn[i].connected)
        sends == call.op = "publish" /\ ~failed /\ published.emits = 1
        mres == IF failed THEN wait[i].reason
                ELSE IF call.op = "publish" THEN published.mres
                ELSE "ok"
        w == IF call.op = "subscribe" /\ ~failed
             THEN subscribe(World, i, call.event, call.callback)
             ELSE World
    IN  /\ Ready(c)
        /\ SetWorld(w)
        /\ calls' = [calls EXCEPT ![c].pc = "done",
                                  ![c].mres = mres,
                                  ![c].ares = IF call.via = "export"
                                              THEN raceSettle(@, Outcome(mres)) ELSE @,
                                  ![c].emits = IF sends THEN @ + 1 ELSE @]
        /\ UNCHANGED <<result, consecErrs, everConnected, cut>>

Unsubscribe(e, ev, callback) ==
    /\ SetWorld(unsubscribe(World, e[1], e[2], ev, callback))
    /\ UNCHANGED <<calls, result, consecErrs, everConnected, cut>>

Disconnect(e) ==
    /\ SetWorld(disconnect(World, e[1], e[2]))
    /\ cut' = cut \cup Waiting(getConnectionKey(e[1], e[2]))
    /\ UNCHANGED <<calls, result, consecErrs, everConnected>>

DisconnectAll ==
    /\ SetWorld(disconnectAll(World))
    /\ UNCHANGED <<calls, result, consecErrs, everConnected, cut>>

\* The socketDisconnect export.
socketDisconnectExport(w, url, namespace) ==
    LET key == getConnectionKey(url, namespace)
    IN  IF w.connections[key] = 0
        THEN [w |-> w,
              result |-> [op |-> "socketDisconnect", key |-> key, success |-> TRUE,
                          message |-> "No active connection found to disconnect", count |-> 0]]
        ELSE [w |-> disconnect(w, url, namespace),
              result |-> [op |-> "socketDisconnect", key |-> key, success |-> TRUE,
                          message |-> "", count |-> 0]]

SocketDisconnect(e) ==
    LET r == socketDisconnectExport(World, normaliseUrl(e[1]), e[2])
    IN  /\ SetWorld(r.w)
        /\ result' = r.result
        /\ cut' = cut \cup Waiting(getConnectionKey(normaliseUrl(e[1]), e[2]))
        /\ UNCHANGED <<calls, consecErrs, everConnected>>

\* The socketUnsubscribe export: it passes no callback to unsubscribe.
socketUnsubscribeExport(w, url, namespace, ev) ==
    LET key == getConnectionKey(url, namespace)
    IN  IF w.connections[key] = 0
        THEN [w |-> w,
              result |-> [op |-> "socketUnsubscribe", key |-> key, success |-> TRUE,
                          message |-> "No active connection found to unsubscribe from",
                          count |-> 0]]
        ELSE [w |-> unsubscribe(w, url, namespace, ev, NoCallback),
              result |-> [op |-> "socketUnsubscribe", key |-> key, success |-> TRUE,
                          message |-> "", count |-> 0]]

SocketUnsubscribe(e, ev) ==
    LET r == socketUnsubscribeExport(World, normaliseUrl(e[1]), e[2], ev)
    IN  /\ SetWorld(r.w)
        /\ result' = r.result
        /\ UNCHANGED <<calls, consecErrs, everConnected, cut>>

\* getConnectionMetrics().total
metricsTotal(w) == Cardinality({k \in ConnKeys : w.connections[k] # 0})

\* The socketDisconnectAll export: the metrics first, then disconnectAll.
SocketDisconnectAll ==
    /\ SetWorld(disconnectAll(World))
    /\ result' = [op |-> "socketDisconnectAll", key |-> "", success |-> TRUE, message |-> "",
                  count |-> metricsTotal(World)]
    /\ UNCHANGED <<calls, consecErrs, everConnected, cut>>

(***************************************************************************)
(* Socket events and timers.                                               *)
(***************************************************************************)
\* The handshake completes.
TransportConnect(i) ==
    /\ NoMicrotask
    /\ socket[i].status = "opening"
    /\ SetWorld(socketEmitEvent([World EXCEPT !.socket[i].status = "open"],
                                i, "connect", "", NoCallback))
    /\ consecErrs' = [consecErrs EXCEPT ![i] = 0]
    /\ everConnected' = everConnected \cup {KeyOf(i)}
    /\ UNCHANGED <<calls, result, cut>>

\* A connection attempt fails.  The client retries reconnectionAttempts times.
TransportConnectError(i) ==
    LET n == consecErrs[i] + 1
        w == [World EXCEPT !.socket[i].status =
                  IF n > socket[i].opts.reconnectionAttempts THEN "gaveup" ELSE @]
    IN  /\ NoMicrotask
        /\ socket[i].status = "opening"
        /\ SetWorld(socketEmitEvent(w, i, "connect_error", "", NoCallback))
        /\ consecErrs' = [consecErrs EXCEPT ![i] = n]
        /\ UNCHANGED <<calls, result, everConnected, cut>>

\* The connection is lost; the client starts to reconnect.
TransportDisconnect(i) ==
    /\ NoMicrotask
    /\ socket[i].status = "open"
    /\ SetWorld(socketEmitEvent([World EXCEPT !.socket[i].status = "opening"],
                                i, "disconnect", "transport close", NoCallback))
    /\ UNCHANGED <<calls, result, consecErrs, everConnected, cut>>

\* The server sends a message; thrower is the callback that fails on it, if any.
Deliver(i, ev, data, thrower) ==
    /\ NoMicrotask
    /\ socket[i].status = "open"
    /\ SetWorld(socketEmitEvent(World, i, ev, data, thrower))
    /\ UNCHANGED <<calls, result, consecErrs, everConnected, cut>>

(***************************************************************************)
(* Timers.  Time itself is not part of the state: a timer is its delay and *)
(* the order in which timers were armed.  Call c arms the timer of its     *)
(* export first and the timer of its connection wait second, and calls     *)
(* start in the order of their ids.  A timer fires before every timer that *)
(* was armed later with a delay at least as long; other pairs of timers    *)
(* fire in either order.                                                   *)
(***************************************************************************)
Creator(i) == CHOOSE c \in CallIds : calls[c].created /\ calls[c].rec = i

ArmedTimers ==
    {[seq |-> 2 * c, delay |-> calls[c].atimer.delay] :
        c \in {d \in CallIds : calls[d].atimer.state = "armed"}}
    \cup
    {[seq |-> 2 * Creator(i) + 1, delay |-> wait[i].delay] :
        i \in {j \in SocketIds : wait[j].timer = "armed"}}

MayFire(seq, delay) ==
    \A t \in ArmedTimers : ~(t.seq < seq /\ t.delay <= delay)

\* The timer of waitForConnection fires.
WaitTimeout(i) ==
    /\ NoMicrotask
    /\ wait[i].timer = "armed"
    /\ MayFire(2 * Creator(i) + 1, wait[i].delay)
    /\ SetWorld([socketOff(socketOff(World, i, "connect"), i, "connect_error")
                    EXCEPT !.wait[i].timer = "fired",
                           !.wait[i].state = "rejected",
                           !.wait[i].reason = "ConnectTimeout"])
    /\ UNCHANGED <<calls, result, consecErrs, everConnected, cut>>

\* The timer of an export's timeoutPromise fires.
AdapterTimeout(c) ==
    /\ NoMicrotask
    /\ calls[c].atimer.state = "armed"
    /\ MayFire(2 * c, calls[c].atimer.delay)
    /\ calls' = [calls EXCEPT ![c].atimer.state = "fired",
                              ![c].ares = raceSettle(@, "timeout")]
    /\ invoked' = NoInvoked
    /\ UNCHANGED <<connections, conn, socket, wait, result, consecErrs, everConnected, cut>>

(***************************************************************************)
(* Specifications.  The steps come in groups; a specification takes the    *)
(* groups and the inputs of the scenario it covers.                        *)
(***************************************************************************)
\* connect, subscribe and publish called on the manager
ManagerCalls(E, O, V, C) ==
    \/ \E e \in E, o \in O : Connect(e, o)
    \/ \E e \in E, ev \in V, cb \in C, o \in O : Subscribe(e, ev, cb, o)
    \/ \E e \in E, ev \in V \ LifecycleEvents, d \in Payloads, o \in O : Publish(e, ev, d, o)

\* the same through the adapter's exports
ExportCalls(E, O, V, C) ==
    \/ \E e \in E, o \in O : SocketConnect(e, o)
    \/ \E e \in E, ev \in V, cb \in C, o \in O : SocketSubscribe(e, ev, cb, o)
    \/ \E e \in E, ev \in V \ LifecycleEvents, d \in Payloads, o \in O : SocketPublish(e, ev, d, o)
    \/ \E c \in CallIds : AdapterTimeout(c)

SyncCalls(E, V, C) ==
    \/ \E e \in E, ev \in V, cb \in C \cup {NoCallback} : Unsubscribe(e, ev, cb)
    \/ \E e \in E : Disconnect(e)
    \/ DisconnectAll

Environment ==
    \/ \E c \in CallIds : Continue(c)
    \/ \E i \in SocketIds : TransportConnect(i)
    \/ \E i \in SocketIds : TransportConnectError(i)
    \/ \E i \in SocketIds : TransportDisconnect(i)
    \/ \E i \in SocketIds : WaitTimeout(i)

Messages(V, C) ==
    \E i \in SocketIds, ev \in V \ LifecycleEvents, d \in Payloads, t \in C \cup {NoCallback} :
        Deliver(i, ev, d, t)

OneEndpoint == {<<"http://h:3000", "/">>}

\* The pool under calls with every choice of options.
Next ==
    \/ ManagerCalls(OneEndpoint, OptionChoices, {"x"}, {"cb"})
    \/ SyncCalls(OneEndpoint, {"x"}, {"cb"})
    \/ Environment

Spec == Init /\ [][Next]_vars

\* The listener registry: two callbacks, two event names, messages.
NextRegistry ==
    \/ ManagerCalls(OneEndpoint, {NoOptions}, Events, Callbacks)
    \/ SyncCalls(OneEndpoint, Events, Callbacks)
    \/ Environment
    \/ Messages(Events, Callbacks)

SpecRegistry == Init /\ [][NextRegistry]_vars

\* The exports and their deadlines.
NextAdapter ==
    \/ ExportCalls(OneEndpoint, {NoOptions, ShortDeadline}, {"x"}, Callbacks)
    \/ Environment

SpecAdapter == Init /\ [][NextAdapter]_vars

\* Two endpoints.
NextKeys ==
    \/ \E e \in Endpoints : Connect(e, NoOptions)
    \/ \E e \in Endpoints : Subscribe(e, "x", "cb", NoOptions)
    \/ \E e \in Endpoints : Disconnect(e)
    \/ DisconnectAll
    \/ \E e \in Endpoints : SocketDisconnect(e)
    \/ Environment

SpecKeys == Init /\ [][NextKeys]_vars

\* Subscriptions made and removed, by the manager's unsubscribe and by the
\* socketUnsubscribe export, with messages.
NextUnsubscribe ==
    \/ \E e \in OneEndpoint, cb \in Callbacks : Subscribe(e, "x", cb, NoOptions)
    \/ \E e \in OneEndpoint, cb \in Callbacks \cup {NoCallback} : Unsubscribe(e, "x", cb)
    \/ \E e \in OneEndpoint : SocketUnsubscribe(e, "x")
    \/ \E e \in OneEndpoint : Disconnect(e)
    \/ Environment
    \/ Messages({"x"}, Callbacks)

SpecUnsubscribe == Init /\ [][NextUnsubscribe]_vars

\* Subscriptions only: no call removes a callback or a record.
NextSubscribe ==
    \/ \E e \in OneEndpoint, cb \in Callbacks : Subscribe(e, "x", cb, NoOptions)
    \/ Environment
    \/ Messages({"x"}, Callbacks)

SpecSubscribe == Init /\ [][NextSubscribe]_vars

\* Shutdown of a pool with two endpoints.
NextShutdown ==
    \/ ManagerCalls(Endpoints, {NoOptions}, {"x"}, {"cb"})
    \/ DisconnectAll
    \/ SocketDisconnectAll
    \/ Environment

SpecShutdown == Init /\ [][NextShutdown]_vars

\* Handshakes: overlapping calls for one key, nothing that disconnects.
NextHandshake ==
    \/ ManagerCalls(OneEndpoint, {NoOptions}, {"x"}, {"cb"})
    \/ Environment

SpecHandshake == Init /\ [][NextHandshake]_vars

\* Requests to the adapter, valid and invalid, by export and by net event, on
\* a transport that answers.
Requests ==
    { <<"http://h:3000", "/", "x", "cb", NoOptions>>,
      <<"h:3000", "chat", "x", "cb", NoOptions>>,
      <<"bad host", "/", "x", "cb", NoOptions>>,
      <<"http://h:3000", "/", "", "cb", NoOptions>>,
      <<"http://h:3000", "/", "x", "", NoOptions>>,
      <<"http://h:3000", "/", "x", "playerDropped", NoOptions>>,
      <<"http://h:3000", "/", "x", "cb", BadOptions>> }

NextRequests ==
    \/ \E r \in Requests : SocketConnect(<<r[1], r[2]>>, r[5])
    \/ \E r \in Requests : SocketSubscribe(<<r[1], r[2]>>, r[3], r[4], r[5])
    \/ \E r \in Requests : NetSubscribe(<<r[1], r[2]>>, r[3], r[4], r[5])
    \/ \E c \in CallIds : Continue(c)
    \/ \E i \in SocketIds : TransportConnect(i)

SpecRequests == Init /\ [][NextRequests]_vars

\* Endpoints whose url and namespace concatenate to one string.
NextAlias ==
    \/ \E e \in AliasEndpoints : SocketConnect(e, NoOptions)
    \/ \E e \in AliasEndpoints : SocketDisconnect(e)
    \/ \E c \in CallIds : AdapterTimeout(c)
    \/ Environment

SpecAlias == Init /\ [][NextAlias]_vars

\* Calls on a transport that may never answer, with disconnect; the event loop
\* runs every ready continuation and fires every timer that is due.
NoAutoConnect == [NoOptions EXCEPT !.autoConnect = <<FALSE>>]

NextLive ==
    \/ ManagerCalls(OneEndpoint, {NoOptions, NoAutoConnect}, {"x"}, {"cb"})
    \/ \E e \in OneEndpoint : Disconnect(e)
    \/ Environment

Fairness ==
    /\ \A c \in CallIds : WF_vars(Continue(c))
    /\ \A i \in SocketIds : WF_vars(WaitTimeout(i))

SpecLive == Init /\ [][NextLive]_vars /\ Fairness

(***************************************************************************)
(* Properties.                                                             *)
(***************************************************************************)
InPool(i) == connections[KeyOf(i)] = i

Count(s, x) == Cardinality({j \in 1..Len(s) : s[j] = x})

\* C1: two connect calls for one key that overlap (the second starts while the
\* first still waits for its handshake) resolve to the same connection record,
\* so that one socket is created for the key.
C1_OverlappingConnectsShareRecord ==
    \A c \in Started : \A d \in calls[c].overlaps :
        (calls[c].op = "connect" /\ calls[d].op = "connect") => calls[c].rec = calls[d].rec

\* C2: a socket that was created and not closed is the socket of the record the
\* pool holds under its key, so at most one such socket exists per key.
C2_OneLiveSocketPerKey ==
    \A i \in Created : socket[i].status # "closed" => InPool(i)

\* C3: for every record and event, the socket holds one wire listener of the
\* event when the event has callbacks and none when it has no entry, and no
\* entry is empty; unsubscribing one callback keeps the wire listener while
\* another callback is registered and removes it with the last callback.
C3_Registry ==
    \A i \in Created : \A ev \in Events :
        IF ev \in DOMAIN conn[i].listeners
        THEN conn[i].listeners[ev] # <<>> /\ socket[i].wire[ev] = 1
        ELSE socket[i].wire[ev] = 0

C3_UnsubscribeStep ==
    \A e \in Endpoints : \A ev \in Events : \A cb \in Callbacks :
        LET i == connections[getConnectionKey(e[1], e[2])]
        IN  (Unsubscribe(e, ev, cb) /\ i # 0) =>
                IF ev \notin DOMAIN conn[i].listeners THEN UNCHANGED <<conn, socket>>
                ELSE IF Without(conn[i].listeners[ev], cb) # <<>>
                THEN /\ conn'[i].listeners[ev] = Without(conn[i].listeners[ev], cb)
                     /\ socket'[i].wire[ev] = 1
                ELSE /\ ev \notin DOMAIN conn'[i].listeners
                     /\ socket'[i].wire[ev] = 0

C3_OneWireListenerIffSubscribed == []C3_Registry /\ [][C3_UnsubscribeStep]_vars

\* C3 witness: cb and cb2 were both subscribed to "x" on one pooled record, cb
\* has been unsubscribed since, and the wire listener is still in place.
C3_Witness ==
    \E i \in Created :
        /\ InPool(i)
        /\ \A c \in CallIds : /\ calls[c].op = "subscribe" /\ calls[c].event = "x"
                               /\ calls[c].rec = i /\ calls[c].mres = "ok"
        /\ {calls[c].callback : c \in CallIds} = {"cb", "cb2"}
        /\ "x" \in DOMAIN conn[i].listeners
        /\ conn[i].listeners["x"] = <<"cb2">>
        /\ socket[i].wire["x"] = 1

\* C4: once cb and cb2 are subscribed to an event, a message delivered on it
\* invokes each of them exactly once, with the payload of the message.
C4_EachCallbackInvokedOnce ==
    (invoked.sock # 0 /\ invoked.event \notin LifecycleEvents) =>
        \A cb \in Callbacks :
            Has(conn[invoked.sock].listeners[invoked.event], cb) => Count(invoked.cbs, cb) = 1

\* C5: after options.reconnectionAttempts consecutive connect errors, with the
\* options of the connect call, the socket is closed and the record is out of
\* the pool.
C5_EvictedAtPerCallLimit ==
    \A i \in Created :
        consecErrs[i] >= socket[i].opts.reconnectionAttempts =>
            socket[i].status = "closed" /\ ~InPool(i)

\* C6: a socket event removes a record from the pool only when it is a connect
\* error of that record's own socket that brings its count to the limit; the
\* record is then not connected.
C6_Step ==
    \A i \in Created : \A j \in SocketIds :
        (TransportConnectError(j) /\ InPool(i) /\ connections'[KeyOf(i)] # i) =>
            (j = i /\ consecErrs'[i] >= EvictionLimit /\ ~conn[i].connected)

C6_EvictedOnlyByOwnErrors == [][C6_Step]_vars

\* C7: publish with autoConnect disabled, before any successful connect for the
\* key, fails with NotConnected and emits nothing.
C7_PublishFailsNotConnected ==
    \A c \in Started :
        (/\ calls[c].op = "publish"
         /\ calls[c].options.autoConnect = <<FALSE>>
         /\ calls[c].fresh
         /\ calls[c].pc = "done") =>
            (calls[c].mres = "NotConnected" /\ calls[c].emits = 0)

\* C8: the deadline of the connection wait of connect is the timeout of the
\* call's options, 5000 when the options give none.
C8_DeadlineIsPerCallTimeout ==
    \A i \in Created : wait[i].state # "none" => wait[i].delay = socket[i].opts.timeout

\* C9: an export delivers one outcome: when its deadline fires first the outcome
\* is the timeout failure, and an outcome once delivered is never replaced,
\* whatever the manager's call does later.
C9_Step ==
    \A c \in CallIds :
        /\ calls[c].ares \notin {"none", "pending"} => calls'[c].ares = calls[c].ares
        /\ (AdapterTimeout(c) /\ calls[c].ares = "pending") => calls'[c].ares = "timeout"

C9_OneOutcome == [][C9_Step]_vars

\* C9 witness: the export returned the timeout failure and the manager's call
\* succeeded afterwards.
C9_Witness ==
    \E c \in Started : calls[c].ares = "timeout" /\ calls[c].mres = "ok"

\* C10: disconnect of a key without a record succeeds and changes no record, no
\* socket and no other entry of the pool; after a disconnect the key has no
\* record, so a second disconnect is of that kind.
C10_Step ==
    \A e \in Endpoints :
        LET key == getConnectionKey(e[1], e[2])
        IN  /\ (Disconnect(e) /\ connections[key] = 0) =>
                   UNCHANGED <<connections, conn, socket, wait, calls>>
            /\ (SocketDisconnect(e) /\ connections[key] = 0) =>
                   (UNCHANGED <<connections, conn, socket, wait, calls>> /\ result'.success)
            /\ Disconnect(e) => connections'[key] = 0
            /\ SocketDisconnect(e) => connections'[key] = 0

C10_DisconnectAbsentIsNoOp == [][C10_Step]_vars

\* C10 witness: the export reported "no connection" for one key while the other
\* key has a record.
C10_Witness ==
    /\ result.op = "socketDisconnect"
    /\ result.success
    /\ result.message = "No active connection found to disconnect"
    /\ connections[result.key] = 0
    /\ \E k \in ConnKeys : connections[k] # 0

\* C11: connect on a key whose pooled record is connected returns that record
\* at once: the call is done with that record, no socket is created and no
\* record, socket, wait or pool entry changes.
C11_Step ==
    \A e \in Endpoints : \A o \in OptionChoices :
        LET key == getConnectionKey(e[1], e[2])
            i == connections[key]
            c == Cardinality(Started) + 1
        IN  (Connect(e, o) /\ i # 0 /\ conn[i].connected) =>
                /\ UNCHANGED <<connections, conn, socket, wait>>
                /\ calls'[c].rec = i
                /\ calls'[c].pc = "done"
                /\ calls'[c].mres = "ok"

C11_ConnectedRecordReturned == [][C11_Step]_vars

\* C11 witness: a connect returned the pooled, connected record, which holds a
\* subscription, without creating a socket.
C11_Witness ==
    \E c \in Started :
        /\ calls[c].op = "connect"
        /\ ~calls[c].created
        /\ calls[c].pc = "done"
        /\ InPool(calls[c].rec)
        /\ conn[calls[c].rec].connected
        /\ "x" \in DOMAIN conn[calls[c].rec].listeners

\* C12: a connect, subscribe or publish on a key whose pooled record has been
\* connected and is now disconnected, its socket reconnecting, creates no
\* socket and leaves the record in the pool.
C12_Step ==
    \A e \in Endpoints :
        LET key == getConnectionKey(e[1], e[2])
            i == connections[key]
            called == \/ \E o \in OptionChoices : Connect(e, o)
                      \/ \E o \in OptionChoices, ev \in Events, cb \in Callbacks :
                            Subscribe(e, ev, cb, o)
                      \/ \E o \in OptionChoices, ev \in Events, d \in Payloads :
                            Publish(e, ev, d, o)
        IN  (/\ called
             /\ i # 0
             /\ wait[i].state = "resolved"
             /\ ~conn[i].connected
             /\ socket[i].status = "opening") =>
                (connections'[key] = i /\ {j \in SocketIds : socket'[j].status # "none"} = Created)

C12_AttachesToDisconnectedRecord == [][C12_Step]_vars

\* C13: every connect, subscribe and publish call that was made returns an
\* outcome, success or failure, when continuations run and timers fire.
C13_EveryCallReturns ==
    \A c \in CallIds :
        (calls[c].op # "none") ~> (calls[c].pc = "done" /\ calls[c].mres # "pending")

\* C13 witness: a call whose key was disconnected while it waited has returned
\* the timeout failure.
C13_Witness ==
    \E c \in cut : calls[c].pc = "done" /\ calls[c].mres = "ConnectTimeout"

\* C14: a message on an event invokes every callback registered for the event,
\* also when one of them throws, and leaves the record in the pool, connected.
C14_FailingCallbackIsolated ==
    (invoked.sock # 0 /\ invoked.event \notin LifecycleEvents /\ InPool(invoked.sock)) =>
        /\ \A j \in 1..Len(conn[invoked.sock].listeners[invoked.event]) :
               Has(invoked.cbs, conn[invoked.sock].listeners[invoked.event][j])
        /\ conn[invoked.sock].connected

\* C15: when disconnect of a key returns, no socket created for the key is
\* open.
C15_Step ==
    \A e \in Endpoints :
        Disconnect(e) =>
            \A i \in Created :
                KeyOf(i) = getConnectionKey(e[1], e[2]) => socket'[i].status # "open"

C15_NoOpenSocketAfterDisconnect == [][C15_Step]_vars

\* C16: a call that waited for its handshake when disconnect was called for
\* its key does not return success.
C16_CutCallFails ==
    \A c \in cut : calls[c].pc = "done" => calls[c].mres # "ok"

\* C17: after disconnectAll the pool is empty and every socket a pool record
\* held when it was called is closed.
C17_Step ==
    (DisconnectAll \/ SocketDisconnectAll) =>
        \A k \in ConnKeys :
            /\ connections'[k] = 0
            /\ connections[k] # 0 => socket'[connections[k]].status = "closed"

C17_DisconnectAllClosesPool == [][C17_Step]_vars

\* C17 witness: socketDisconnectAll found two records in the pool; the pool is
\* empty and both sockets are closed.
C17_Witness ==
    /\ result.op = "socketDisconnectAll"
    /\ result.count = 2
    /\ \A k \in ConnKeys : connections[k] = 0
    /\ Created = SocketIds
    /\ \A i \in Created : socket[i].status = "closed"

\* C18: unsubscribe creates no socket and returns normally; when the key has no
\* record, the record no entry for the event, or the entry not the callback, it
\* changes no pool entry, record, registry, wire listener or wait.
C18_Step ==
    \A e \in OneEndpoint : \A ev \in Events \ LifecycleEvents :
        LET key == getConnectionKey(e[1], e[2])
            i == connections[key]
            absent == i = 0 \/ ev \notin DOMAIN conn[i].listeners
        IN  /\ \A cb \in Callbacks \cup {NoCallback} :
                Unsubscribe(e, ev, cb) =>
                    /\ {j \in SocketIds : socket'[j].status # "none"} = Created
                    /\ (absent \/ (cb # NoCallback /\ ~Has(conn[i].listeners[ev], cb))) =>
                           UNCHANGED <<connections, conn, socket, wait, calls>>
            /\ SocketUnsubscribe(e, ev) =>
                    /\ {j \in SocketIds : socket'[j].status # "none"} = Created
                    /\ result'.success
                    /\ absent => UNCHANGED <<connections, conn, socket, wait, calls>>

C18_UnsubscribeNothingIsNoOp == [][C18_Step]_vars

\* C18 witness: socketUnsubscribe found no record for the key and said so, while
\* a record made for the key earlier still holds a subscription.
C18_Witness ==
    /\ result.op = "socketUnsubscribe"
    /\ result.success
    /\ result.message = "No active connection found to unsubscribe from"
    /\ connections[result.key] = 0
    /\ \E i \in Created : "x" \in DOMAIN conn[i].listeners

\* C19: unsubscribe without a callback removes the event's callbacks and its
\* wire listener from the key's record; a socket invokes, for a message, only
\* callbacks of the event's entry, through a wire listener it holds.
C19_Step ==
    \A e \in OneEndpoint : \A ev \in Events \ LifecycleEvents :
        LET i == connections[getConnectionKey(e[1], e[2])]
        IN  ((Unsubscribe(e, ev, NoCallback) \/ SocketUnsubscribe(e, ev)) /\ i # 0) =>
                (ev \notin DOMAIN conn'[i].listeners /\ socket'[i].wire[ev] = 0)

C19_Invoked ==
    (invoked.sock # 0 /\ invoked.cbs # <<>>) =>
        /\ socket[invoked.sock].wire[invoked.event] > 0
        /\ invoked.event \in DOMAIN conn[invoked.sock].listeners
        /\ \A j \in 1..Len(invoked.cbs) :
               Has(conn[invoked.sock].listeners[invoked.event], invoked.cbs[j])

C19_UnsubscribeEventRemovesAll == []C19_Invoked /\ [][C19_Step]_vars

\* C19 witness: cb and cb2 were subscribed to "x" on the pooled, connected
\* record; after socketUnsubscribe the record has no entry and no wire listener
\* for "x".
C19_Witness ==
    \E i \in Created :
        /\ InPool(i)
        /\ conn[i].connected
        /\ \A c \in CallIds : /\ calls[c].op = "subscribe" /\ calls[c].event = "x"
                               /\ calls[c].rec = i /\ calls[c].mres = "ok"
        /\ {calls[c].callback : c \in CallIds} = {"cb", "cb2"}
        /\ result.op = "socketUnsubscribe"
        /\ result.message = ""
        /\ "x" \notin DOMAIN conn[i].listeners
        /\ socket[i].wire["x"] = 0

\* C20: a subscribe that returns success has put its callback into the event's
\* entry of the record the pool holds under its key; a subscribe that returns
\* a failure has changed no registry and no wire listener.
C20_Step ==
    \A c \in CallIds :
        LET key == getConnectionKey(calls[c].url, calls[c].namespace)
            ev == calls[c].event
        IN  (Continue(c) /\ calls[c].op = "subscribe") =>
                IF calls'[c].mres = "ok"
                THEN /\ connections'[key] # 0
                     /\ ev \in DOMAIN conn'[connections'[key]].listeners
                     /\ Has(conn'[connections'[key]].listeners[ev], calls[c].callback)
                ELSE UNCHANGED <<conn, socket>>

C20_SubscribedOnPooledRecord == [][C20_Step]_vars

C22_Step ==
    \A c \in CallIds : \A d \in CallIds \ {c} :
        LET key == getConnectionKey(calls[c].url, calls[c].namespace)
            ev == calls[c].event
            i == connections'[key]
        IN  (/\ Continue(c)
             /\ calls[c].op = "subscribe" /\ calls[d].op = "subscribe"
             /\ getConnectionKey(calls[d].url, calls[d].namespace) = key
             /\ calls[d].event = ev
             /\ (c \in calls[d].overlaps \/ d \in calls[c].overlaps)
             /\ calls[d].pc = "done" /\ calls[d].mres = "ok"
             /\ calls'[c].mres = "ok") =>
                /\ i # 0
                /\ ev \in DOMAIN conn'[i].listeners
                /\ Has(conn'[i].listeners[ev], calls[c].callback)
                /\ Has(conn'[i].listeners[ev], calls[d].callback)
                /\ socket'[i].wire[ev] = 1

C22_OverlappingSubscribesBothKept == [][C22_Step]_vars

\* C23: while a record is in the pool, a connect error of its socket adds 1 to
\* its reconnectAttempts, a connect of its socket sets it to 0, and no other
\* step changes it.
C23_Step ==
    \A i \in Created :
        InPool(i) =>
            /\ TransportConnectError(i) =>
                   conn'[i].reconnectAttempts = conn[i].reconnectAttempts + 1
            /\ TransportConnect(i) => conn'[i].reconnectAttempts = 0
            /\ conn'[i].reconnectAttempts # conn[i].reconnectAttempts =>
                   (TransportConnectError(i) \/ TransportConnect(i))

C23_CounterFollowsSocketEvents == [][C23_Step]_vars

\* C24: a publish call that has returned has emitted once when it succeeded and
\* not at all when it failed, and the step that emits finds the record's
\* connected flag set.
C24_Emitted ==
    \A c \in Started :
        calls[c].op = "publish" =>
            /\ calls[c].emits \in {0, 1}
            /\ calls[c].pc = "done" => (calls[c].emits = 1 <=> calls[c].mres = "ok")
            /\ calls[c].pc # "done" => calls[c].emits = 0

C24_Step ==
    \A c \in CallIds :
        (Continue(c) /\ calls'[c].emits # calls[c].emits) =>
            /\ calls[c].op = "publish"
            /\ conn[calls[c].rec].connected
            /\ calls'[c].emits = calls[c].emits + 1

C24_PublishEmitsOnceWhenConnected == []C24_Emitted /\ [][C24_Step]_vars

\* C24 witness: one publish succeeded with one emit; another found its record
\* not connected after its await and emitted nothing.
C24_Witness ==
    /\ \E c \in Started : /\ calls[c].op = "publish" /\ calls[c].pc = "done"
                          /\ calls[c].mres = "ok" /\ calls[c].emits = 1
    /\ \E c \in Started : /\ calls[c].op = "publish" /\ calls[c].pc = "done"
                          /\ calls[c].mres = "NotConnected" /\ calls[c].emits = 0

\* C25: an operation that completed before its deadline has no deadline timer
\* left armed: the connection wait settled by a socket event, and the export
\* whose race was settled by the manager's promise.
C25_CompletedOperationHasNoTimer ==
    /\ \A i \in Created :
           (wait[i].state \in {"resolved", "rejected"} /\ wait[i].reason # "ConnectTimeout")
               => wait[i].timer # "armed"
    /\ \A c \in Started :
           (calls[c].via = "export" /\ calls[c].ares \notin {"pending", "timeout"})
               => calls[c].atimer.state # "armed"

\* C26: the step of a call that creates a record leaves that record in the pool
\* under its key as the call suspends; and, with no disconnect called, while a
\* call waits for its handshake the pool holds a record for its key unless the
\* key has been evicted.
C26_Step ==
    \A c \in CallIds :
        (calls[c].op = "none" /\ calls'[c].op # "none" /\ calls'[c].created) =>
            /\ calls'[c].pc = "await"
            /\ connections'[getConnectionKey(calls'[c].url, calls'[c].namespace)] = calls'[c].rec

C26_Evicted(key) ==
    \E j \in Created : KeyOf(j) = key /\ conn[j].reconnectAttempts >= EvictionLimit

C26_Pooled ==
    \A c \in Started :
        LET key == getConnectionKey(calls[c].url, calls[c].namespace)
        IN  (calls[c].pc = "await" /\ wait[calls[c].rec].state = "pending") =>
                (connections[key] # 0 \/ C26_Evicted(key))

C27_Used(c, f, default) ==
    socket[calls[c].rec].opts[f] =
        IF calls[c].options[f] = <<>> THEN default ELSE calls[c].options[f][1]

C27_PerCallOptionsWin ==
    \A c \in Started :
        calls[c].created =>
            /\ C27_Used(c, "reconnectionAttempts", 3)
            /\ C27_Used(c, "reconnectionDelay", 1000)
            /\ C27_Used(c, "timeout", 5000)
            /\ C27_Used(c, "autoConnect", TRUE)
            /\ C27_Used(c, "headers", {})
            /\ C27_Used(c, "params", {})
            /\ DOMAIN socket[calls[c].rec].opts = DOMAIN NoOptions

\* C27 witness: one socket made with per-call values for five fields and the
\* default autoConnect, another with autoConnect false and five defaults.
C27_Witness ==
    /\ \E c \in Started :
           /\ calls[c].created
           /\ socket[calls[c].rec].opts =
                  [reconnectionAttempts |-> 1, reconnectionDelay |-> 500, timeout |-> 10000,
                   autoConnect |-> TRUE, headers |-> {<<"authorization", "t">>},
                   params |-> {<<"room", "r">>}]
    /\ \E c \in Started :
           /\ calls[c].created
           /\ socket[calls[c].rec].opts = [defaultOptions EXCEPT !.autoConnect = FALSE]

\* C28: for every record in the pool, connected is true exactly when its socket
\* is open, i.e. when the last lifecycle event of the socket was a connect.
C28_FlagFollowsSocket ==
    \A i \in Created : InPool(i) => (conn[i].connected <=> socket[i].status = "open")

\* C29: a callback in the callback list of the record pooled for a key stays in
\* the callback list of the record pooled for that key over every step that is
\* not an unsubscribe, unless the step empties the key's pool entry
\* (disconnect, disconnectAll, eviction).
C29_Subscribed(cs, rs, key) ==
    /\ cs[key] # 0
    /\ "x" \in DOMAIN rs[cs[key]].listeners
    /\ Has(rs[cs[key]].listeners["x"], "cb")

C29_Step ==
    \A key \in ConnKeys :
        C29_Subscribed(connections, conn, key) =>
            \/ C29_Subscribed(connections', conn', key)
            \/ connections'[key] = 0
            \/ \E e \in OneEndpoint, cb \in {"cb", NoCallback} : Unsubscribe(e, "x", cb)

C29_SubscriptionOutlivesReconnect == [][C29_Step]_vars

\* C30: once socketSubscribe has returned a failure to its caller, the
\* continuation of that request registers nothing: no record's callback lists
\* and no socket's wire listeners change.
C30_Step ==
    \A c \in CallIds :
        (/\ calls[c].op = "subscribe"
         /\ calls[c].via = "export"
         /\ calls[c].ares \in Failures
         /\ Continue(c)) =>
            /\ \A i \in SocketIds : conn'[i].listeners = conn[i].listeners
            /\ \A i \in SocketIds : socket'[i].wire = socket[i].wire

C30_FailedSubscribeRegistersNothing == [][C30_Step]_vars

\* C31: once socketPublish has returned a failure to its caller, the
\* continuation of that request emits nothing to the transport.
C31_Step ==
    \A c \in CallIds :
        (/\ calls[c].op = "publish"
         /\ calls[c].via = "export"
         /\ calls[c].ares \in Failures
         /\ Continue(c)) =>
            calls'[c].emits = calls[c].emits

C31_FailedPublishEmitsNothing == [][C31_Step]_vars

\* C32: no unsubscribe call and no continuation of a subscribe call, whatever
\* the event name, changes the lifecycle handlers the manager has on a socket.
C32_Step ==
    (\E i \in SocketIds : socket'[i].lifecycle # socket[i].lifecycle) =>
        /\ ~ \E e \in OneEndpoint, ev \in Events, cb \in Callbacks \cup {NoCallback} :
                 Unsubscribe(e, ev, cb)
        /\ ~ \E c \in CallIds : calls[c].op = "subscribe" /\ Continue(c)

C32_LifecycleHandlersKept == [][C32_Step]_vars

\* C33: every record in the pool has a reconnect-attempt counter below 3.
C33_PooledCounterBelowLimit ==
    \A i \in Created : InPool(i) => conn[i].reconnectAttempts < 3

\* C33 witness: one record has been evicted at its third connect error, and
\* the record now in the pool has counted two.
C33_Witness ==
    /\ \E i \in Created : ~InPool(i) /\ conn[i].reconnectAttempts = 3
    /\ \E i \in Created : InPool(i) /\ conn[i].reconnectAttempts = 2

\* C34: a record whose connected flag is true has a reconnect-attempt counter
\* of 0, whether or not it is in the pool.
C34_ConnectedMeansNoAttempts ==
    \A i \in Created : conn[i].connected => conn[i].reconnectAttempts = 0

\* C34 witness: a record whose creating call failed on a connect error, so that
\* its counter was above 0, is connected with its counter back at 0.
C34_Witness ==
    \E c \in Started :
        /\ calls[c].created
        /\ calls[c].mres = "ConnectFailed"
        /\ conn[calls[c].rec].connected
        /\ conn[calls[c].rec].reconnectAttempts = 0

\* C35: no record's callback list holds a handler that emits to a callback
\* event name reserved by FiveM.
C35_NoReservedCallback ==
    \A i \in SocketIds : \A ev \in DOMAIN conn[i].listeners :
        \A k \in 1..Len(conn[i].listeners[ev]) :
            conn[i].listeners[ev][k] \notin sensitiveEvents

\* C37: a request to the adapter with an invalid URL, an invalid event name, an
\* invalid callback event name or invalid options returns a failure, creates
\* no socket and no call of the manager, and leaves the pool and every
\* record's callback lists as they were.
C37_Untouched ==
    /\ result'.success = FALSE
    /\ UNCHANGED <<connections, conn, socket, wait, calls>>

C37_Step ==
    \A r \in Requests :
        LET e == <<r[1], r[2]>>
        IN  /\ (/\ (normaliseUrl(r[1]) = Null \/ ~isValidOptions(r[5]))
                /\ SocketConnect(e, r[5])) => C37_Untouched
            /\ (/\ \/ normaliseUrl(r[1]) = Null
                   \/ ~isValidEvent(r[3])
                   \/ r[4] = "" \/ r[4] \in sensitiveEvents
                   \/ ~isValidOptions(r[5])
                /\ SocketSubscribe(e, r[3], r[4], r[5])) => C37_Untouched
            /\ (/\ \/ ~isValidUrl(r[1])
                   \/ ~isValidEvent(r[3])
                   \/ r[4] = ""
                   \/ ~isValidOptions(r[5])
                /\ NetSubscribe(e, r[3], r[4], r[5])) => C37_Untouched

C37_RejectedRequestChangesNothing == [][C37_Step]_vars

\* C37 witness: a request with invalid options has been refused while the pool
\* holds a connected record with a callback.
C37_Witness ==
    /\ result.op = "socketSubscribe"
    /\ ~result.success
    /\ result.message = "Invalid options format"
    /\ \E i \in Created : /\ InPool(i) /\ conn[i].connected
                          /\ "x" \in DOMAIN conn[i].listeners

\* C36: two requests that passed validation and differ in url or in namespace
\* have different pool keys.
C36_DistinctEndpointsDistinctKeys ==
    \A c, d \in Started :
        (calls[c].url # calls[d].url \/ calls[c].namespace # calls[d].namespace) =>
            getConnectionKey(calls[c].url, calls[c].namespace)
                # getConnectionKey(calls[d].url, calls[d].namespace)

====
